---- MODULE Spec2Model ----
(***************************************************************************)
(* Model of the Chucky n8n node: ChuckyJob.execute and the createJob,      *)
(* getJob, cancelJob and listJobs helpers it calls.  Each await of the     *)
(* code is a position (pc); each action runs the code from one await to    *)
(* the next.  The remote services, the clock and crypto.randomBytes are    *)
(* the environment: their answers are drawn from small sets.  Every run    *)
(* on these inputs ends: the clock needs no bound.                         *)
(*                                                                         *)
(* A JavaScript object is a TLA+ function whose domain is the set of keys  *)
(* the object has; scalar JSON values are written as their JSON text.      *)
(***************************************************************************)
EXTENDS Integers, Sequences, FiniteSets, TLC

VARIABLES
    n,              \* items.length
    continueOnFail, \* this.continueOnFail()
    i,              \* loop index of execute
    pc,             \* position of execute / createJob
    now,            \* Date.now(), in milliseconds
    params,         \* the node parameters of item i, as read by getNodeParameter
    loc,            \* local variables of the running createJob call
    src,            \* the job source's script for the job created by item i
    log,            \* requests and timers issued for the item in progress
    sent,           \* bodies of all POST /incubate requests issued so far
    mints,          \* number of createToken calls so far
    returnData,     \* returnData of execute
    thrown,         \* the error execute threw, if any
    ops,            \* the operation parameter read for each item so far
    scope           \* what the environment is followed for: "item" or "batch"

vars == <<n, continueOnFail, i, pc, now, params, loc, src, log, sent, mints,
          returnData, thrown, ops, scope>>

----------------------------------------------------------------------------
(* Bounds of the model *)

MaxItems == 2        \* input items per execute call
MaxN == 2            \* non-terminal answers a scripted job source gives first
MaxLatency == 1      \* a request or a timer runs 0..MaxLatency seconds long/late
MaxPieces == 5       \* a text the builder parses is made of up to MaxPieces pieces

(* Program constants *)

DefaultPollingInterval == 5
DefaultTimeout == 600
MsPerSecond == 1000
TokenExpiresIn == 3600
DefaultListSize == 25
DefaultAiDollars == 10
DefaultComputeHours == 1

----------------------------------------------------------------------------
(* JavaScript values *)

Undefined == "undefined"
NoError == [name |-> "none", message |-> <<>>]

\* x || d for a number parameter x (0 and an unset parameter are both falsy)
OrNum(x, d) == IF x # 0 THEN x ELSE d

\* obj.key || d for a number key the object may lack (0 and undefined are falsy)
OrNumKey(obj, key, d) == IF key \in DOMAIN obj /\ obj[key] # 0 THEN obj[key] ELSE d

\* x || d for a string x ('' and undefined are both falsy)
OrStr(x, d) == IF x # "" /\ x # Undefined THEN x ELSE d

\* truthiness of a string-or-undefined value
TruthyStr(x) == x # "" /\ x # Undefined

\* obj.key: the value of a key, undefined when the object lacks it
Get(obj, key) == IF key \in DOMAIN obj THEN obj[key] ELSE Undefined

\* obj.key read as a condition, for a key that holds an object when present
HasObj(obj, key) == key \in DOMAIN obj

\* an options collection in which nothing was set; a spread that adds no key
NoOptions == <<>>

\* how long an await may run: createToken, any request after it and any timer
\* overrun when one item is followed in detail; in a batch only the first
\* request of an item; the credentials read where the request body is followed
Latencies == {k * MsPerSecond : k \in 0..MaxLatency}

\* the scopes in which every await takes its time
Timed == scope \in {"item", "live"}

RequestLatencies(kind) ==
    IF \/ Timed /\ kind \notin {"credentials", "hmac-key"}
       \/ scope = "batch" /\ kind = "hmac-key"
       \/ scope = "body" /\ kind = "credentials"
    THEN Latencies ELSE {0}

\* polling a job that never completes up to the default timeout is followed
\* with awaits that take no time
LongWait == src.never /\ params.pollingOptions.timeout = 0

\* how long a getJob call of the poll loop may run, and how late its timer fires
FetchLatencies == IF Timed /\ ~LongWait THEN Latencies ELSE {0}

TimerOverruns == IF Timed /\ ~LongWait THEN Latencies ELSE {0}

----------------------------------------------------------------------------
(* Text the request builder parses.  Such a string is the sequence of its
   characters.  JavaScript values it decodes to are tagged by their type: a
   string [str |-> characters], an array [arr |-> elements], an object
   [obj |-> function from its keys to their values], null [null |-> "null"].
   The texts followed are made of the characters of ToolPieces and
   FormatPieces: no number, no true or false, no escape sequence. *)

Str(chars) == [str |-> chars]
Arr(elements) == [arr |-> elements]
Obj(members) == [obj |-> members]
Null == [null |-> "null"]
Undef == [undefined |-> "undefined"]

\* value && typeof value === 'object': an object or an array, not null
IsObject(value) == DOMAIN value = {"obj"} \/ DOMAIN value = {"arr"}

\* Object.keys(value).length, for an object or an array
KeyCount(value) ==
    IF DOMAIN value = {"obj"} THEN Cardinality(DOMAIN value.obj) ELSE Len(value.arr)

\* the characters String.prototype.trim removes and JSON.parse skips
Whitespace == {" "}

\* the string without its leading whitespace
RECURSIVE TrimStart(_)
TrimStart(s) ==
    IF s # <<>> /\ Head(s) \in Whitespace THEN TrimStart(Tail(s)) ELSE s

\* the string without its trailing whitespace
RECURSIVE TrimEnd(_)
TrimEnd(s) ==
    IF s # <<>> /\ s[Len(s)] \in Whitespace
    THEN TrimEnd(SubSeq(s, 1, Len(s) - 1))
    ELSE s

\* String.prototype.trim
Trim(s) == TrimEnd(TrimStart(s))

\* String.prototype.split(','): the segments between the commas
RECURSIVE Split(_)
Split(s) ==
    IF \E k \in 1..Len(s) : s[k] = ","
    THEN LET k == CHOOSE j \in 1..Len(s) :
                      s[j] = "," /\ \A h \in 1..(j - 1) : s[h] # ","
         IN  <<SubSeq(s, 1, k - 1)>> \o Split(SubSeq(s, k + 1, Len(s)))
    ELSE <<s>>

\* s.split(',').map((t) => t.trim())
SplitTrim(s) ==
    LET segments == Split(s)
    IN  Arr([k \in 1..Len(segments) |-> Str(Trim(segments[k]))])

\* JSON.parse, by recursive descent: the value read from the head of a text and
\* the text that follows it, or a failure (the SyntaxError JSON.parse throws)
SyntaxError == [ok |-> FALSE]

Parsed(value, rest) == [ok |-> TRUE, val |-> value, rest |-> rest]

StartsWith(s, prefix) ==
    Len(s) >= Len(prefix) /\ SubSeq(s, 1, Len(prefix)) = prefix

\* the characters of a string, after its opening quote, up to the closing one
RECURSIVE ParseChars(_, _)
ParseChars(s, acc) ==
    IF s = <<>> THEN SyntaxError
    ELSE IF Head(s) = "\"" THEN Parsed(Str(acc), Tail(s))
    ELSE ParseChars(Tail(s), Append(acc, Head(s)))

RECURSIVE ParseValue(_)
RECURSIVE ParseElements(_, _)
RECURSIVE ParseMembers(_, _)

\* the elements of an array after "[", the array not being empty
ParseElements(s, acc) ==
    LET element == ParseValue(s) IN
    IF ~element.ok THEN SyntaxError
    ELSE LET t == TrimStart(element.rest) IN
         IF t = <<>> THEN SyntaxError
         ELSE IF Head(t) = "," THEN ParseElements(Tail(t), Append(acc, element.val))
         ELSE IF Head(t) = "]" THEN Parsed(Arr(Append(acc, element.val)), Tail(t))
         ELSE SyntaxError

\* the members of an object after "{", the object not being empty; a key read
\* again replaces the value it had
ParseMembers(s, acc) ==
    LET t == TrimStart(s) IN
    IF t = <<>> \/ Head(t) # "\"" THEN SyntaxError
    ELSE LET key == ParseChars(Tail(t), <<>>) IN
         IF ~key.ok THEN SyntaxError
         ELSE LET u == TrimStart(key.rest) IN
              IF u = <<>> \/ Head(u) # ":" THEN SyntaxError
              ELSE LET member == ParseValue(Tail(u)) IN
                   IF ~member.ok THEN SyntaxError
                   ELSE LET v == TrimStart(member.rest)
                            members == (key.val.str :> member.val) @@ acc
                        IN  IF v = <<>> THEN SyntaxError
                            ELSE IF Head(v) = "," THEN ParseMembers(Tail(v), members)
                            ELSE IF Head(v) = "}" THEN Parsed(Obj(members), Tail(v))
                            ELSE SyntaxError

ParseValue(s0) ==
    LET s == TrimStart(s0) IN
    IF s = <<>> THEN SyntaxError
    ELSE IF Head(s) = "\"" THEN ParseChars(Tail(s), <<>>)
    ELSE IF Head(s) = "["
         THEN LET t == TrimStart(Tail(s)) IN
              IF t # <<>> /\ Head(t) = "]" THEN Parsed(Arr(<<>>), Tail(t))
              ELSE ParseElements(t, <<>>)
    ELSE IF Head(s) = "{"
         THEN LET t == TrimStart(Tail(s)) IN
              IF t # <<>> /\ Head(t) = "}" THEN Parsed(Obj(<<>>), Tail(t))
              ELSE ParseMembers(t, <<>>)
    ELSE IF StartsWith(s, <<"n", "u", "l", "l">>) THEN Parsed(Null, SubSeq(s, 5, Len(s)))
    ELSE SyntaxError

\* JSON.parse(text): one value and nothing but whitespace after it
JsonParse(text) ==
    LET value == ParseValue(text) IN
    IF value.ok /\ TrimStart(value.rest) = <<>> THEN Parsed(value.val, <<>>) ELSE SyntaxError

\* the texts made of at most k of the given pieces
RECURSIVE Texts(_, _)
Texts(pieces, k) ==
    IF k = 0 THEN {<<>>}
    ELSE LET shorter == Texts(pieces, k - 1)
         IN  shorter \cup {t \o q : t \in shorter, q \in pieces}

----------------------------------------------------------------------------
(* Errors.  A message is the sequence of the pieces its text is made of. *)

\* an error thrown by this.helpers.request
TransportError(kind) == [name |-> "TransportError", message |-> <<"request failed: ", kind>>]

\* new NodeOperationError(this.getNode(), message)
NodeOperationError(message) == [name |-> "NodeOperationError", message |-> message]

\* `Job ${data.vesselId} did not complete within ${pollingOptions.timeout || 600} seconds`
TimeoutMessage(vesselId, timeoutParam) ==
    <<"Job ", vesselId, " did not complete within ",
      ToString(OrNum(timeoutParam, DefaultTimeout)), " seconds">>

----------------------------------------------------------------------------
(* Job records of the portal (interface Job, IncubateOutput, SDKResult) *)

StructuredValues == {"0", "false", "{}", "null", "{'name':'x'}"}

SDKResultBase ==
    [type |-> "result", subtype |-> "success", result |-> "done",
     total_cost_usd |-> "0.01", usage |-> "{'input_tokens':1,'output_tokens':2}"]

SDKResults ==
    {SDKResultBase} \cup
    {SDKResultBase @@ [structured_output |-> v] : v \in StructuredValues}

IncubateOutputs ==
    {[success |-> "true", text |-> "hi"],
     [success |-> "false", error |-> "agent failed"]} \cup
    {[success |-> "true", text |-> "hi", result |-> r] : r \in SDKResults}

JobBase(id, status, done) ==
    [id |-> id, status |-> status, taskIdentifier |-> "incubate",
     createdAt |-> "t0", updatedAt |-> "t1",
     isCompleted |-> done,
     isSuccess |-> (status = "COMPLETED"),
     isFailed |-> (status = "FAILED")]

\* a job the portal reports while it is not in a terminal state
PendingJob(id) == JobBase(id, "EXECUTING", FALSE) @@ [startedAt |-> "t1"]

\* a terminal job that carries output o
JobWithOutput(id, o) ==
    JobBase(id, IF o.success = "true" THEN "COMPLETED" ELSE "FAILED", TRUE)
        @@ [startedAt |-> "t1", finishedAt |-> "t2", output |-> o]

\* the jobs the portal may report in a terminal state
TerminalJobs(id) ==
    IF scope = "item"
    THEN {JobBase(id, "CANCELED", TRUE),
          JobBase(id, "COMPLETED", TRUE) @@ [finishedAt |-> "t2"]} \cup
         {JobWithOutput(id, o) : o \in IncubateOutputs}
    ELSE {JobWithOutput(id, [success |-> "true", text |-> "hi",
                             result |-> SDKResultBase @@ [structured_output |-> "{}"]])}

\* the terminal states of a job that was reported pending first
LateJobs(id) ==
    IF scope = "item"
    THEN {JobBase(id, "CANCELED", TRUE),
          JobBase(id, "COMPLETED", TRUE) @@ [finishedAt |-> "t2"]}
    ELSE TerminalJobs(id)

----------------------------------------------------------------------------
(* createJob: flattening of the terminal job *)

\* a flattening that lifts structured_output only when it is truthy
FlattenResultTruthy(r) ==
    LET lifted == [resultSubtype |-> Get(r, "subtype"),
                   resultText |-> Get(r, "result"),
                   totalCostUsd |-> Get(r, "total_cost_usd"),
                   usage |-> Get(r, "usage")]
    IN  IF Get(r, "structured_output") \notin {Undefined, "0", "false", "null", ""}
        THEN lifted @@ [structuredOutput |-> r["structured_output"]]
        ELSE lifted

FlattenResult(r) ==
    LET lifted == [resultSubtype |-> Get(r, "subtype"),
                   resultText |-> Get(r, "result"),
                   totalCostUsd |-> Get(r, "total_cost_usd"),
                   usage |-> Get(r, "usage")]
    IN  IF "structured_output" \in DOMAIN r
        THEN lifted @@ [structuredOutput |-> r["structured_output"]]
        ELSE lifted

FlattenOutput(o) ==
    LET lifted == [success |-> Get(o, "success"),
                   text |-> Get(o, "text"),
                   error |-> Get(o, "error")]
    IN  IF HasObj(o, "result")
        THEN lifted @@ FlattenResult(o["result"])
        ELSE lifted

Flatten(job) ==
    LET result == [jobId |-> job["id"],
                   status |-> job["status"],
                   isSuccess |-> job["isSuccess"],
                   isFailed |-> job["isFailed"],
                   createdAt |-> job["createdAt"],
                   updatedAt |-> job["updatedAt"],
                   startedAt |-> Get(job, "startedAt"),
                   finishedAt |-> Get(job, "finishedAt")]
        withOutput == IF HasObj(job, "output")
                      THEN result @@ FlattenOutput(job["output"])
                      ELSE result
    IN  withOutput @@ [rawOutput |-> Get(job, "output")]

----------------------------------------------------------------------------
(* createJob: token and idempotency key *)

HexChars == <<"0", "1", "2", "3", "4", "5", "6", "7",
              "8", "9", "a", "b", "c", "d", "e", "f">>

\* Buffer.toString('hex'): two hex digits per byte
RECURSIVE ToHex(_)
ToHex(bytes) ==
    IF bytes = <<>> THEN <<>>
    ELSE <<HexChars[(Head(bytes) \div 16) + 1], HexChars[(Head(bytes) % 16) + 1]>>
         \o ToHex(Tail(bytes))

\* the values crypto.randomBytes(4) is followed for
RandomDraws == {<<0, 0, 0, 0>>, <<222, 173, 190, 239>>}

\* a generated key without its random part
GeneratedKeyNoRandom(ms, bytes) == <<"n8n-", ToString(ms)>>

\* `n8n-${Date.now()}-${crypto.randomBytes(4).toString('hex')}`
GeneratedKey(ms, bytes) == <<"n8n-", ToString(ms), "-">> \o ToHex(bytes)

\* advancedOptions.idempotencyKey || generated
IdempotencyKey(supplied, ms, bytes) ==
    IF TruthyStr(supplied) THEN <<supplied>> ELSE GeneratedKey(ms, bytes)

\* the signing secret the portal holds for a project
HmacKeyOf(projectId) == <<"hmac-of-", projectId>>

\* createBudget({ aiDollars: aiBudget || 10, computeHours: computeBudget || 1,
\* window: 'day' })
CreateBudget(advancedOptions) ==
    [aiDollars |-> OrNumKey(advancedOptions, "aiBudget", DefaultAiDollars),
     computeHours |-> OrNumKey(advancedOptions, "computeBudget", DefaultComputeHours),
     window |-> "day"]

\* createToken of the SDK, an opaque signed credential; mint tells the calls
\* apart: its number, and the item and the clock it was made at
CreateToken(userId, projectId, secret, budget, mint) ==
    [userId |-> OrStr(userId, "n8n-workflow"),
     projectId |-> projectId,
     secret |-> secret,
     expiresIn |-> TokenExpiresIn,
     budget |-> budget,
     mint |-> mint]

\* a tools value that is always the comma-split text
ParseToolsSplitOnly(text) == SplitTrim(text)

\* try { JSON.parse(tools) } catch { tools.split(',').map((t) => t.trim()) }
ParseTools(text) ==
    IF JsonParse(text).ok THEN JsonParse(text).val ELSE SplitTrim(text)

\* an output format whose JSON text is not decoded
ParseOutputFormatNoDecode(input) ==
    IF DOMAIN input = {"str"} THEN Undef
    ELSE IF IsObject(input) THEN input
    ELSE Undef

\* parsedOutputFormat for a truthy modelOptions.outputFormat: the object a string
\* decodes to (nothing when JSON.parse throws or gives no object), or the object
\* itself
ParseOutputFormat(input) ==
    IF DOMAIN input = {"str"}
    THEN IF JsonParse(input.str).ok /\ IsObject(JsonParse(input.str).val)
         THEN JsonParse(input.str).val
         ELSE Undef
    ELSE IF IsObject(input) THEN input
    ELSE Undef

\* if (modelOptions.outputFormat): set, and not the empty string
TruthyFormat(modelOptions) ==
    /\ "outputFormat" \in DOMAIN modelOptions
    /\ modelOptions["outputFormat"] # Str(<<>>)

\* ...(parsedOutputFormat && Object.keys(parsedOutputFormat).length > 0 &&
\*     { outputFormat: { type: 'json_schema', schema: parsedOutputFormat } })
OutputFormatField(modelOptions) ==
    LET parsedOutputFormat ==
            IF TruthyFormat(modelOptions)
            THEN ParseOutputFormat(modelOptions["outputFormat"])
            ELSE Undef
    IN  IF IsObject(parsedOutputFormat) /\ KeyCount(parsedOutputFormat) > 0
        THEN [outputFormat |-> [type |-> "json_schema", schema |-> parsedOutputFormat]]
        ELSE NoOptions

\* a text option is truthy when it is set and not empty
TruthyText(obj, key) == key \in DOMAIN obj /\ obj[key] # <<>>

\* ...(toolsValue !== undefined && { tools: toolsValue })
ToolsField(toolOptions) ==
    IF TruthyText(toolOptions, "tools")
    THEN [tools |-> ParseTools(toolOptions["tools"])]
    ELSE NoOptions

\* ...(toolOptions[key] && { [key]: toolOptions[key].split(',').map((t) => t.trim()) })
ToolListField(toolOptions, key) ==
    IF TruthyText(toolOptions, key)
    THEN (key :> SplitTrim(toolOptions[key]))
    ELSE NoOptions

\* permissionMode and allowDangerouslySkipPermissions, unless the mode is the default
PermissionFields(toolOptions) ==
    LET mode == Get(toolOptions, "permissionMode") IN
    IF TruthyStr(mode) /\ mode # "default"
    THEN [permissionMode |-> mode,
          allowDangerouslySkipPermissions |-> (mode = "bypassPermissions")]
    ELSE NoOptions

\* systemPrompt and maxTurns, each when truthy
PromptFields(modelOptions) ==
    (IF TruthyStr(Get(modelOptions, "systemPrompt"))
     THEN [systemPrompt |-> modelOptions["systemPrompt"]] ELSE NoOptions)
    @@
    (IF OrNumKey(modelOptions, "maxTurns", 0) # 0
     THEN [maxTurns |-> modelOptions["maxTurns"]] ELSE NoOptions)

\* body.ttl, when advancedOptions.ttl is truthy and positive
TtlField(advancedOptions) ==
    IF OrNumKey(advancedOptions, "ttl", 0) > 0
    THEN [ttl |-> advancedOptions["ttl"]] ELSE NoOptions

\* body.callback, when callbackOptions.callbackUrl is truthy
CallbackField(callbackOptions) ==
    IF TruthyStr(Get(callbackOptions, "callbackUrl"))
    THEN [callback |->
            [url |-> callbackOptions["callbackUrl"]] @@
            (IF TruthyStr(Get(callbackOptions, "callbackSecret"))
             THEN [secret |-> callbackOptions["callbackSecret"]] ELSE NoOptions)]
    ELSE NoOptions

\* the body of POST /incubate
IncubateBody(p, idempotencyKey, token, model) ==
    [message |-> p.message,
     idempotencyKey |-> idempotencyKey,
     options |-> [token |-> token, model |-> model]
                 @@ PromptFields(p.modelOptions)
                 @@ OutputFormatField(p.modelOptions)
                 @@ ToolsField(p.toolOptions)
                 @@ ToolListField(p.toolOptions, "allowedTools")
                 @@ ToolListField(p.toolOptions, "disallowedTools")
                 @@ PermissionFields(p.toolOptions)]
    @@ TtlField(p.advancedOptions)
    @@ CallbackField(p.callbackOptions)

\* modelOptions.model || 'claude-sonnet-4-5-20250929', or the custom model
Model(model, customModel) ==
    LET chosen == OrStr(model, "claude-sonnet-4-5-20250929")
    IN  IF chosen = "custom" /\ TruthyStr(customModel) THEN customModel ELSE chosen

----------------------------------------------------------------------------
(* Inputs: the node parameters of one item *)

NoParams == [operation |-> "none"]

PollingOptions ==
    IF Timed
    THEN [pollingInterval : {0, 1, 2}, timeout : {0, 1, 3}]
    ELSE {[pollingInterval |-> 1, timeout |-> 2]}

\* the budgets an item may set in advancedOptions (a key is absent when not set)
BudgetValues == {0, 5}

BudgetOptions ==
    {NoOptions} \cup
    {[aiBudget |-> a] : a \in BudgetValues} \cup
    {[computeBudget |-> c] : c \in BudgetValues} \cup
    {[aiBudget |-> a, computeBudget |-> c] : a, c \in BudgetValues}

\* the other numbers and strings an item may set (a key is absent when not set)
TtlOptions == {[ttl |-> t] : t \in {0, 60, -1}}

PromptOptions ==
    {[systemPrompt |-> "", maxTurns |-> 0],
     [systemPrompt |-> "be brief", maxTurns |-> 3],
     [model |-> "custom", customModel |-> "my-model"],
     [model |-> "custom", customModel |-> ""]}

CallbackOptions ==
    {[callbackUrl |-> "", callbackSecret |-> "s3"],
     [callbackUrl |-> "https://cb"],
     [callbackUrl |-> "https://cb", callbackSecret |-> "s3"]}

\* the pieces a tool-list text is made of
ToolPieces == {<<"[">>, <<"]">>, <<",">>, <<" ">>, <<"a">>, <<"\"">>, <<"\"", "a", "\"">>}

ToolTexts == Texts(ToolPieces, MaxPieces)

ToolOptions ==
    {[permissionMode |-> mode] : mode \in {"default", "bypassPermissions", "acceptEdits"}} \cup
    {[allowedTools |-> <<"a", ",", " ", "a">>, disallowedTools |-> <<>>],
     [allowedTools |-> <<>>, disallowedTools |-> <<" ", "a", " ">>]}

\* the pieces the JSON text of an output format is made of
FormatPieces == {<<"{">>, <<"}">>, <<":">>, <<"[">>, <<"]">>, <<"\"", "a", "\"">>,
                 <<"n", "u", "l", "l">>}

FormatTexts == Texts(FormatPieces, MaxPieces)

\* the objects the JSON field may hand over already decoded
FormatObjects ==
    {Obj(<<>>), Arr(<<>>),
     Obj(<<"a">> :> Str(<<"a">>)),
     Obj((<<"type">> :> Str(<<"object">>)) @@ (<<"properties">> :> Obj(<<>>)))}

FormatOptions ==
    {[outputFormat |-> Str(t)] : t \in FormatTexts} \cup
    {[outputFormat |-> o] : o \in FormatObjects}

Only(key, options) ==
    [model |-> IF key = "model" THEN options ELSE NoOptions,
     tool |-> IF key = "tool" THEN options ELSE NoOptions,
     callback |-> IF key = "callback" THEN options ELSE NoOptions,
     advanced |-> IF key = "advanced" THEN options ELSE NoOptions]

\* the options of the request builder an item may set: when the request is
\* followed, one collection at a time
BuilderOptions ==
    CASE scope = "body" ->
            {Only("advanced", o) : o \in BudgetOptions \cup TtlOptions} \cup
            {Only("model", o) : o \in PromptOptions} \cup
            {Only("tool", o) : o \in ToolOptions} \cup
            {Only("callback", o) : o \in CallbackOptions}
      [] scope = "tools" -> {Only("tool", [tools |-> t]) : t \in ToolTexts}
      [] scope = "format" -> {Only("model", o) : o \in FormatOptions}
      [] OTHER -> {Only("none", NoOptions)}

NoBuilderOptions == Only("none", NoOptions)

\* the parameters createJob reads with getNodeParameter
CreateParamsOf(w, po, key, b) ==
    [operation |-> "create",
     projectId |-> "p1",
     message |-> "hello",
     waitForCompletion |-> w,
     pollingOptions |-> po,
     modelOptions |-> b.model @@ [model |-> Undefined, customModel |-> Undefined],
     toolOptions |-> b.tool,
     callbackOptions |-> b.callback,
     advancedOptions |-> [userId |-> Undefined, idempotencyKey |-> key] @@ b.advanced]

\* builder options are followed for submissions that do not wait and bring their key
CreateParams ==
    {CreateParamsOf(c[1], c[2], c[3], c[4]) :
        c \in ({FALSE} \X PollingOptions \X {"user-key"} \X BuilderOptions) \cup
               {d \in BOOLEAN \X PollingOptions \X {"", "user-key"} \X {NoBuilderOptions} :
                   (Timed /\ d[1]) => d[3] = "user-key"}}

JobIdParams(op) == [operation |-> op, jobId |-> "run_x"]

ListParams == [operation : {"list"}, listOptions : [status : {""}, limit : {0}]]

----------------------------------------------------------------------------
(* The request log *)

\* a request (or timer) issued for item i at clock t, its answer pending
Req(kind, body, t) ==
    [item |-> i, kind |-> kind, body |-> body, at |-> t, took |-> 0, res |-> "pending"]

\* the log with its last entry answered after d milliseconds
Settle(l, res, d) == [l EXCEPT ![Len(l)].res = res, ![Len(l)].took = d]

Count(l, kind) == Cardinality({k \in 1..Len(l) : l[k].kind = kind})

NoLoc == [hmacSecret |-> <<>>, token |-> [mint |-> [no |-> 0]], idempotencyKey |-> <<>>,
          data |-> [vesselId |-> Undefined], pollingInterval |-> 0, timeout |-> 0,
          startTime |-> 0, job |-> [isCompleted |-> FALSE]]

NoSrc == [never |-> FALSE, nonTerminal |-> 0]

\* the scripts of a job source: never terminal, or terminal after k other answers
Scripts == {[never |-> TRUE, nonTerminal |-> 0]} \cup
           [never : {FALSE}, nonTerminal : IF Timed THEN 0..MaxN ELSE {0}]

\* the scripts drawn for an item with polling options po: a job that never
\* completes is polled to the default timeout at the default interval only
ScriptsFor(po) ==
    {s \in Scripts : (s.never /\ po.timeout = 0) => po.pollingInterval = 0}

\* what the scripted source may answer to fetch number k for job id
SourceAnswers(script, k, id) ==
    IF ~script.never /\ k > script.nonTerminal
    THEN IF script.nonTerminal = 0 THEN TerminalJobs(id) ELSE LateJobs(id)
    ELSE {PendingJob(id)}

----------------------------------------------------------------------------
(* execute: how an item's pipeline ends (the body of the for loop after the
   awaited call, and its catch block) *)

\* the loop index after an item
NextIndex(k) == k + 1

\* returnData.push({ json: result }) and the next iteration, or return [returnData]
ItemReturns(json) ==
    /\ returnData' = Append(returnData, [json |-> json])
    /\ i' = NextIndex(i)
    /\ pc' = IF NextIndex(i) < n THEN "loop" ELSE "returned"
    /\ thrown' = thrown

\* an error record that always names the first item
ErrorRecordFirstItem(error, index) ==
    [json |-> [error |-> error.message], pairedItem |-> [item |-> 0]]

\* the error record pushed in continue-on-fail mode
ErrorRecord(error, index) ==
    [json |-> [error |-> error.message], pairedItem |-> [item |-> index]]

\* the catch block of execute
ItemThrows(error) ==
    IF continueOnFail
    THEN /\ returnData' = Append(returnData, ErrorRecord(error, i))
         /\ i' = NextIndex(i)
         /\ pc' = IF NextIndex(i) < n THEN "loop" ELSE "returned"
         /\ thrown' = thrown
    ELSE /\ pc' = "threw"
         /\ thrown' = error
         /\ UNCHANGED <<returnData, i>>

\* a call that is not awaited: the loop moves on while its request is pending
AwaitsDetached(position) ==
    /\ pc' = position
    /\ i' = NextIndex(i)
    /\ UNCHANGED <<returnData, thrown>>

\* the call goes on to its next await
Awaits(position) ==
    /\ pc' = position
    /\ UNCHANGED <<returnData, i, thrown>>

\* the clock at the end of an await that ran d milliseconds
Tick(d) == now' = now + d

----------------------------------------------------------------------------
(* The state after execute has read its input items and asked for the
   credentials *)

Start ==
    /\ continueOnFail \in BOOLEAN
    /\ i = 0
    /\ pc = "credentials"
    /\ now = 0
    /\ params = NoParams
    /\ loc = NoLoc
    /\ src = NoSrc
    /\ log = <<>>
    /\ sent = <<>>
    /\ mints = 0
    /\ returnData = <<>>
    /\ thrown = NoError
    /\ ops = <<>>

\* a batch of up to MaxItems items
Init ==
    /\ scope = "batch"
    /\ n \in 0..MaxItems
    /\ Start

\* one item, with the request it builds followed in detail
InitBody ==
    /\ scope = "body"
    /\ n = 1
    /\ Start

\* one item, with the tool list it sends followed in detail
InitTools ==
    /\ scope = "tools"
    /\ n = 1
    /\ Start

\* one item, with the output format it sends followed in detail
InitFormat ==
    /\ scope = "format"
    /\ n = 1
    /\ Start

\* one item, with the time of every await followed
InitLive ==
    /\ scope = "live"
    /\ n = 1
    /\ Start

\* one item, with the environment followed in detail
InitItem ==
    /\ scope = "item"
    /\ n = 1
    /\ Start

----------------------------------------------------------------------------
(* execute: the credentials are read before the loop, outside its try *)

\* the error of a getCredentials call that rejects
CredentialsError == [name |-> "Error", message |-> <<"credentials not found">>]

\* getCredentials answered: the loop begins, or execute returns [[]] at once
CredentialsResolve ==
    /\ pc = "credentials"
    /\ \E d \in RequestLatencies("credentials") : Tick(d)
    /\ pc' = IF 0 < n THEN "loop" ELSE "returned"
    /\ UNCHANGED <<scope, ops, n, continueOnFail, i, params, loc, src, log, sent,
                   mints, returnData, thrown>>

\* getCredentials rejected: execute throws, whatever continueOnFail says
CredentialsReject ==
    /\ pc = "credentials"
    /\ \E d \in RequestLatencies("credentials") : Tick(d)
    /\ pc' = "threw"
    /\ thrown' = CredentialsError
    /\ UNCHANGED <<scope, ops, n, continueOnFail, i, params, loc, src, log, sent,
                   mints, returnData>>

----------------------------------------------------------------------------
(* execute: an iteration starts, up to the first await of the operation *)

\* operation values that are none of 'create', 'get', 'cancel' and 'list'
OtherOperations == {"delete"}

\* no branch of the if chain is taken: nothing is called and nothing is pushed
StartOther ==
    /\ pc = "loop"
    /\ i < n
    /\ \E op \in OtherOperations : params' = [operation |-> op]
    /\ log' = <<>>
    /\ loc' = NoLoc
    /\ src' = NoSrc
    /\ i' = NextIndex(i)
    /\ pc' = IF NextIndex(i) < n THEN "loop" ELSE "returned"
    /\ ops' = Append(ops, params'.operation)
    /\ UNCHANGED <<scope, n, continueOnFail, now, sent, mints, returnData, thrown>>

\* operation === 'create': createJob reads its parameters and calls getHmacKey
StartCreate ==
    /\ pc = "loop"
    /\ i < n
    /\ \E p \in CreateParams :
          /\ params' = p
          /\ log' = <<Req("hmac-key", [projectId |-> p.projectId], now)>>
    /\ loc' = NoLoc
    /\ src' = NoSrc
    /\ Awaits("hmac")
    /\ ops' = Append(ops, params'.operation)
    /\ UNCHANGED <<scope, n, continueOnFail, now, sent, mints>>

\* operation === 'get': getJob is called with the jobId parameter
StartGet ==
    /\ pc = "loop"
    /\ i < n
    /\ params' = JobIdParams("get")
    /\ log' = <<Req("get", [jobId |-> params'.jobId], now)>>
    /\ loc' = NoLoc
    /\ src' = NoSrc
    /\ Awaits("opGet")
    /\ ops' = Append(ops, params'.operation)
    /\ UNCHANGED <<scope, n, continueOnFail, now, sent, mints>>

\* operation === 'cancel': cancelJob is called with the jobId parameter
StartCancel ==
    /\ pc = "loop"
    /\ i < n
    /\ params' = JobIdParams("cancel")
    /\ log' = <<Req("cancel", [jobId |-> params'.jobId], now)>>
    /\ loc' = NoLoc
    /\ src' = NoSrc
    /\ Awaits("opCancel")
    /\ ops' = Append(ops, params'.operation)
    /\ UNCHANGED <<scope, n, continueOnFail, now, sent, mints>>

\* operation === 'list': listJobs builds its body and posts it
StartList ==
    /\ pc = "loop"
    /\ i < n
    /\ \E p \in ListParams :
          /\ params' = p
          /\ log' = <<Req("list", [status |-> OrStr(p.listOptions.status, Undefined),
                                   size |-> OrNum(p.listOptions.limit, DefaultListSize)],
                         now)>>
    /\ loc' = NoLoc
    /\ src' = NoSrc
    /\ Awaits("opList")
    /\ ops' = Append(ops, params'.operation)
    /\ UNCHANGED <<scope, n, continueOnFail, now, sent, mints>>

----------------------------------------------------------------------------
(* createJob *)

\* a loop that never looks at the clock
LoopContinuesAlways(t, startTime, timeout) == TRUE

\* a loop that still polls when exactly the timeout has elapsed
LoopContinuesInclusive(t, startTime, timeout) == t - startTime <= timeout

\* while (Date.now() - startTime < timeout)
LoopContinues(t, startTime, timeout) == t - startTime < timeout

\* a poll loop that ends only on a successful job
JobIsDoneOnSuccess(job) == job.isSuccess

\* if (job.isCompleted)
JobIsDone(job) == job.isCompleted

\* a timer that ignores the configured interval
TimerDelayDefault(l) == DefaultPollingInterval * MsPerSecond

\* the delay given to setTimeout between two polls
TimerDelay(l) == l.pollingInterval

\* a token kept from the first submission and sent again
TokenCached(minted) == IF sent = <<>> THEN minted ELSE sent[1].body.options.token

\* the token placed in options.token: the one this call has just minted
TokenToSend(minted) == minted

\* a loop head that cancels the remote job when the timeout has elapsed
PollLoopCancels(t, l, lg) ==
    IF LoopContinues(t, l.startTime, l.timeout)
    THEN /\ log' = Append(lg, Req("get", [jobId |-> l.data.vesselId], t))
         /\ Awaits("getJob")
    ELSE /\ log' = Append(lg, [Req("cancel", [jobId |-> l.data.vesselId], t)
                                   EXCEPT !.res = "ok"])
         /\ ItemThrows(NodeOperationError(
                TimeoutMessage(l.data.vesselId, params.pollingOptions.timeout)))

\* the head of the poll loop at clock t: the next getJob call, or the timeout error
PollLoop(t, l, lg) ==
    IF LoopContinues(t, l.startTime, l.timeout)
    THEN /\ log' = Append(lg, Req("get", [jobId |-> l.data.vesselId], t))
         /\ Awaits("getJob")
    ELSE /\ log' = lg
         /\ ItemThrows(NodeOperationError(
                TimeoutMessage(l.data.vesselId, params.pollingOptions.timeout)))

\* getHmacKey failed: the error leaves createJob
HmacKeyFails ==
    /\ pc = "hmac"
    /\ \E d \in RequestLatencies("hmac-key") :
          /\ Tick(d)
          /\ log' = Settle(log, "fail", d)
    /\ ItemThrows(TransportError("hmac-key"))
    /\ UNCHANGED <<scope, ops, n, continueOnFail, params, loc, src, sent, mints>>

\* getHmacKey answered: createToken is called with the secret and awaited
HmacKeyAnswers ==
    /\ pc = "hmac"
    /\ \E d \in RequestLatencies("hmac-key") :
          /\ Tick(d)
          /\ log' = Settle(log, "ok", d)
    /\ loc' = [loc EXCEPT !.hmacSecret = HmacKeyOf(params.projectId)]
    /\ mints' = mints + 1
    /\ Awaits("createToken")
    /\ UNCHANGED <<scope, ops, n, continueOnFail, params, src, sent>>

\* the error of a createToken call that rejects
TokenError == [name |-> "Error", message |-> <<"createToken failed">>]

\* createToken rejected: the error leaves createJob, no request was built
CreateTokenRejects ==
    /\ pc = "createToken"
    /\ \E d \in RequestLatencies("createToken") : Tick(d)
    /\ ItemThrows(TokenError)
    /\ UNCHANGED <<scope, ops, n, continueOnFail, params, loc, src, log, sent, mints>>

\* createToken resolved with the token: choose the idempotency key, build the
\* body and post it to /incubate
CreateTokenResolves ==
    /\ pc = "createToken"
    /\ \E d \in RequestLatencies("createToken") :
       \E bytes \in (IF TruthyStr(params.advancedOptions.idempotencyKey)
                     THEN {<<>>} ELSE RandomDraws) :
          LET token == CreateToken(params.advancedOptions.userId, params.projectId,
                                   loc.hmacSecret, CreateBudget(params.advancedOptions),
                                   [no |-> mints, item |-> i, at |-> now + d])
              idempotencyKey == IdempotencyKey(params.advancedOptions.idempotencyKey,
                                               now + d, bytes)
              body == IncubateBody(params, idempotencyKey, TokenToSend(token),
                                   Model(params.modelOptions.model,
                                         params.modelOptions.customModel))
              request == Req("incubate", body, now + d)
          IN  /\ Tick(d)
              /\ loc' = [loc EXCEPT !.token = token,
                                    !.idempotencyKey = idempotencyKey]
              /\ log' = Append(log, request)
              /\ sent' = Append(sent, request @@ [keyMs |-> now + d, keyBytes |-> bytes,
                                                   params |-> params])
    /\ Awaits("incubate")
    /\ UNCHANGED <<scope, ops, n, continueOnFail, params, src, mints>>

\* the POST /incubate request failed
IncubateFails ==
    /\ pc = "incubate"
    /\ \E d \in RequestLatencies("incubate") :
          /\ Tick(d)
          /\ log' = Settle(log, "fail", d)
    /\ ItemThrows(TransportError("incubate"))
    /\ UNCHANGED <<scope, ops, n, continueOnFail, params, loc, src, sent, mints>>

\* the error and message fields /incubate is followed for
ErrorFields ==
    IF scope = "item"
    THEN {<<Undefined, Undefined>>, <<"", "">>, <<"quota exceeded", Undefined>>,
          <<Undefined, "bad token">>, <<"quota exceeded", "bad token">>,
          <<"quota exceeded", "">>, <<"", "bad token">>}
    ELSE {<<Undefined, Undefined>>, <<"quota exceeded", "bad token">>}

\* the answers of /incubate (interface IncubateResponse)
IncubateResponses(idempotencyKey) ==
    {[vesselId |-> "run_a", idempotencyKey |-> idempotencyKey, status |-> "PENDING",
      scheduledFor |-> Undefined, error |-> e[1], message |-> e[2]] : e \in ErrorFields}

\* data.error || data.message
SubmissionFailed(data) == TruthyStr(data.error) \/ TruthyStr(data.message)

\* a message that prefers the error field
SubmissionMessageErrorFirst(data) ==
    <<OrStr(data.error, OrStr(data.message, "Failed to create job"))>>

\* data.message || data.error || 'Failed to create job'
SubmissionMessage(data) ==
    <<OrStr(data.message, OrStr(data.error, "Failed to create job"))>>

\* the record returned when the caller does not wait
SubmissionRecord(data) ==
    [jobId |-> data.vesselId, idempotencyKey |-> data.idempotencyKey,
     status |-> data.status, scheduledFor |-> data.scheduledFor]

\* /incubate answered with an error or message field
IncubateRejects ==
    /\ pc = "incubate"
    /\ \E d \in RequestLatencies("incubate") :
          /\ Tick(d)
          /\ log' = Settle(log, "ok", d)
    /\ \E data \in IncubateResponses(loc.idempotencyKey) :
          /\ SubmissionFailed(data)
          /\ loc' = [loc EXCEPT !.data = data]
          /\ ItemThrows(NodeOperationError(SubmissionMessage(data)))
    /\ UNCHANGED <<scope, ops, n, continueOnFail, params, src, sent, mints>>

\* /incubate accepted and waitForCompletion is false
IncubateAcceptsNoWait ==
    /\ pc = "incubate"
    /\ ~params.waitForCompletion
    /\ \E d \in RequestLatencies("incubate") :
          /\ Tick(d)
          /\ log' = Settle(log, "ok", d)
    /\ \E data \in IncubateResponses(loc.idempotencyKey) :
          /\ ~SubmissionFailed(data)
          /\ loc' = [loc EXCEPT !.data = data]
          /\ ItemReturns(SubmissionRecord(data))
    /\ UNCHANGED <<scope, ops, n, continueOnFail, params, src, sent, mints>>

\* /incubate accepted and waitForCompletion is true: polling begins
IncubateAcceptsWait ==
    /\ pc = "incubate"
    /\ params.waitForCompletion
    /\ \E d \in RequestLatencies("incubate") :
       \E data \in IncubateResponses(loc.idempotencyKey) :
          LET l == [loc EXCEPT
                      !.data = data,
                      !.pollingInterval =
                          OrNum(params.pollingOptions.pollingInterval,
                                DefaultPollingInterval) * MsPerSecond,
                      !.timeout =
                          OrNum(params.pollingOptions.timeout, DefaultTimeout)
                              * MsPerSecond,
                      !.startTime = now + d]
          IN  /\ ~SubmissionFailed(data)
              /\ Tick(d)
              /\ loc' = l
              /\ PollLoop(now + d, l, Settle(log, "ok", d))
    /\ \E script \in ScriptsFor(params.pollingOptions) : src' = script
    /\ UNCHANGED <<scope, ops, n, continueOnFail, params, sent, mints>>

\* a failed getJob call of the poll loop that is issued again
PollFailsRetried ==
    /\ pc = "getJob"
    /\ \E d \in FetchLatencies :
          /\ Tick(d)
          /\ log' = Append(Settle(log, "fail", d),
                           Req("get", [jobId |-> loc.data.vesselId], now + d))
    /\ Awaits("getJob")
    /\ UNCHANGED <<scope, ops, n, continueOnFail, params, loc, src, sent, mints>>

\* a getJob call of the poll loop failed
PollFails ==
    /\ pc = "getJob"
    /\ \E d \in FetchLatencies :
          /\ Tick(d)
          /\ log' = Settle(log, "fail", d)
    /\ ItemThrows(TransportError("get"))
    /\ UNCHANGED <<scope, ops, n, continueOnFail, params, loc, src, sent, mints>>

\* a getJob call of the poll loop answered: return the flat record of a
\* completed job, or start the timer
PollAnswers ==
    /\ pc = "getJob"
    /\ \E d \in FetchLatencies :
       \E job \in SourceAnswers(src, Count(log, "get"), loc.data.vesselId) :
          /\ Tick(d)
          /\ loc' = [loc EXCEPT !.job = job]
          /\ IF JobIsDone(job)
             THEN /\ log' = Settle(log, IF job.isCompleted THEN "terminal" ELSE "ok", d)
                  /\ ItemReturns(Flatten(job))
             ELSE /\ log' = Append(Settle(log, IF job.isCompleted THEN "terminal" ELSE "ok", d),
                                   Req("sleep", TimerDelay(loc), now + d))
                  /\ Awaits("sleep")
    /\ UNCHANGED <<scope, ops, n, continueOnFail, params, src, sent, mints>>

\* the timer fired, no earlier than its delay: back to the loop head
TimerFires ==
    /\ pc = "sleep"
    /\ \E d \in TimerOverruns :
          /\ Tick(log[Len(log)].body + d)
          /\ PollLoop(now + log[Len(log)].body + d, loc, Settle(log, "ok", d))
    /\ UNCHANGED <<scope, ops, n, continueOnFail, params, loc, src, sent, mints>>

----------------------------------------------------------------------------
(* The get, cancel and list operations *)

\* the request of a get, cancel or list operation failed
OperationFails ==
    /\ pc \in {"opGet", "opCancel", "opList"}
    /\ \E d \in RequestLatencies(log[Len(log)].kind) :
          /\ Tick(d)
          /\ log' = Settle(log, "fail", d)
    /\ ItemThrows(TransportError(log[Len(log)].kind))
    /\ UNCHANGED <<scope, ops, n, continueOnFail, params, loc, src, sent, mints>>

\* getJob answered: execute pushes the job as it is
GetAnswers ==
    /\ pc = "opGet"
    /\ \E d \in RequestLatencies("get") :
          /\ Tick(d)
          /\ log' = Settle(log, "ok", d)
    /\ \E job \in {PendingJob(params.jobId), JobBase(params.jobId, "CANCELED", TRUE)} :
          ItemReturns(job)
    /\ UNCHANGED <<scope, ops, n, continueOnFail, params, loc, src, sent, mints>>

\* cancelJob's request answered: return { success: true, jobId }
CancelAnswers ==
    /\ pc = "opCancel"
    /\ \E d \in RequestLatencies("cancel") :
          /\ Tick(d)
          /\ log' = Settle(log, "ok", d)
    /\ ItemReturns([success |-> TRUE, jobId |-> params.jobId])
    /\ UNCHANGED <<scope, ops, n, continueOnFail, params, loc, src, sent, mints>>

\* listJobs' request answered: return the response as it is
ListAnswers ==
    /\ pc = "opList"
    /\ \E d \in RequestLatencies("list") :
          /\ Tick(d)
          /\ log' = Settle(log, "ok", d)
    /\ ItemReturns([jobs |-> <<>>])
    /\ UNCHANGED <<scope, ops, n, continueOnFail, params, loc, src, sent, mints>>

----------------------------------------------------------------------------

Next ==
    \/ CredentialsResolve
    \/ CredentialsReject
    \/ StartOther
    \/ StartCreate
    \/ StartGet
    \/ StartCancel
    \/ StartList
    \/ HmacKeyFails
    \/ HmacKeyAnswers
    \/ CreateTokenRejects
    \/ CreateTokenResolves
    \/ IncubateFails
    \/ IncubateRejects
    \/ IncubateAcceptsNoWait
    \/ IncubateAcceptsWait
    \/ PollFails
    \/ PollAnswers
    \/ TimerFires
    \/ OperationFails
    \/ GetAnswers
    \/ CancelAnswers
    \/ ListAnswers

Spec == Init /\ [][Next]_vars

SpecItem == InitItem /\ [][Next]_vars

SpecBody == InitBody /\ [][Next]_vars

SpecTools == InitTools /\ [][Next]_vars

SpecFormat == InitFormat /\ [][Next]_vars

\* every request that was issued is answered or fails, every timer fires, and
\* execute goes on when it can
SpecLive == InitLive /\ [][Next]_vars /\ WF_vars(Next)

----------------------------------------------------------------------------
(* Vocabulary of the properties.  While pc is "loop", "returned" or "threw"
   and the log is not empty, params, loc, src and log are those of the item
   that ended last. *)

ItemEnded == pc \in {"loop", "returned", "threw"} /\ log # <<>>

\* the item that ended last failed
LastFailed ==
    \/ pc = "threw"
    \/ /\ returnData # <<>>
       /\ "pairedItem" \in DOMAIN returnData[Len(returnData)]

\* the message of the error it failed with
LastMessage ==
    IF pc = "threw" THEN thrown.message ELSE returnData[Len(returnData)].json.error

\* the record it returned
LastJson == returnData[Len(returnData)].json

IsCreate == params.operation = "create"

\* /incubate answered the item and the answer was accepted
Accepted ==
    /\ IsCreate
    /\ Len(log) >= 2
    /\ log[2].res = "ok"
    /\ ~SubmissionFailed(loc.data)

NoRequestFailed == \A k \in 1..Len(log) : log[k].res # "fail"

\* a createJob call that waited for completion has ended, all its requests answered
Polled == ItemEnded /\ Accepted /\ params.waitForCompletion /\ NoRequestFailed

Fetches == Count(log, "get")

\* it failed with the timeout error (the only message of five pieces)
TimedOut == LastFailed /\ Len(LastMessage) = 5

\* milliseconds since polling began
Elapsed == now - loc.startTime

\* the timeout and the polling interval the item's parameters configure
ConfiguredTimeout ==
    IF params.pollingOptions.timeout # 0
    THEN params.pollingOptions.timeout ELSE DefaultTimeout

ConfiguredInterval ==
    IF params.pollingOptions.pollingInterval # 0
    THEN params.pollingOptions.pollingInterval ELSE DefaultPollingInterval

ReturnedFlat ==
    /\ ~LastFailed
    /\ loc.job.isCompleted
    /\ LastJson = Flatten(loc.job)

----------------------------------------------------------------------------
(* C1 *)

\* C1 as stated: with a job source that answers non-terminal N times and then
\* terminal, a waiting createJob makes exactly N+1 fetches and returns the flat
\* record of the terminal job.
C1_Stated ==
    (Polled /\ ~src.never) =>
        (ReturnedFlat /\ Fetches = src.nonTerminal + 1)

\* C1, amended: the same, unless the loop head finds the timeout elapsed before
\* fetch N+1 is issued; createJob then fails with the timeout error after at most
\* N fetches.
C1_PollRoundTrip ==
    (Polled /\ ~src.never) =>
        \/ ReturnedFlat /\ Fetches = src.nonTerminal + 1
        \/ /\ TimedOut
           /\ Fetches <= src.nonTerminal
           /\ now - loc.startTime >= loc.timeout

C1_Witness ==
    /\ Polled
    /\ ~src.never
    /\ src.nonTerminal = 2
    /\ ReturnedFlat
    /\ Fetches = 3

----------------------------------------------------------------------------
(* C2 *)

NamesJobAndTimeout ==
    /\ LastMessage[2] = loc.data.vesselId
    /\ LastMessage[4] = ToString(ConfiguredTimeout)

\* C2 as stated: with a job source that never completes, a waiting createJob
\* fails with a timeout error naming the job id and the configured timeout, raised
\* when the time since polling began is at least the timeout and exceeds it by
\* less than one poll interval.
C2_Stated ==
    (Polled /\ src.never) =>
        /\ TimedOut
        /\ NamesJobAndTimeout
        /\ Elapsed >= ConfiguredTimeout * MsPerSecond
        /\ Elapsed - ConfiguredTimeout * MsPerSecond < ConfiguredInterval * MsPerSecond

\* C2, amended: the same, the error exceeding the timeout by less than one poll
\* interval plus the time the last getJob call took and the overrun of the last
\* timer.
C2_TimeoutError ==
    (Polled /\ src.never) =>
        /\ TimedOut
        /\ NamesJobAndTimeout
        /\ Elapsed >= ConfiguredTimeout * MsPerSecond
        /\ Len(log) >= 4
        /\ log[Len(log)].kind = "sleep"
        /\ log[Len(log) - 1].kind = "get"
        /\ Elapsed - ConfiguredTimeout * MsPerSecond
              < ConfiguredInterval * MsPerSecond
                + log[Len(log) - 1].took + log[Len(log)].took

C2_Witness ==
    /\ Polled
    /\ src.never
    /\ TimedOut
    /\ Fetches >= 2
    /\ log[Len(log) - 1].took > 0

----------------------------------------------------------------------------
(* C3 *)

\* the requests and timers of the poll loop
PollLog == SubSeq(log, 3, Len(log))

\* C3: after an accepted submission with waitForCompletion, the first fetch is
\* issued at the clock /incubate answered at; fetches and timers alternate, each
\* timer set to the poll interval when a fetch answers and the next fetch issued
\* when it fires; a fetch that observes a completed job is the last entry and
\* createJob has returned.
C3_PollCadence ==
    (Accepted /\ params.waitForCompletion) =>
        \A k \in 1..Len(PollLog) :
            LET e == PollLog[k] IN
            /\ (k % 2 = 1) => e.kind = "get"
            /\ (k % 2 = 0) =>
                  /\ e.kind = "sleep"
                  /\ e.body = ConfiguredInterval * MsPerSecond
                  /\ e.at = PollLog[k - 1].at + PollLog[k - 1].took
            /\ (k = 1) => e.at = log[2].at + log[2].took
            /\ (k % 2 = 1 /\ k > 1) =>
                  e.at = PollLog[k - 1].at + PollLog[k - 1].body + PollLog[k - 1].took
            /\ (e.res = "terminal") => (k = Len(PollLog) /\ ItemEnded /\ ReturnedFlat)

C3_Witness ==
    /\ ItemEnded
    /\ Accepted
    /\ params.waitForCompletion
    /\ Len(PollLog) = 5
    /\ PollLog[5].res = "terminal"
    /\ params.pollingOptions.pollingInterval = 2

----------------------------------------------------------------------------
(* C4 *)

IsErrorRecord(r) == "pairedItem" \in DOMAIN r

\* by the log alone: the item that ended last got what its operation returns
EndedWell ==
    IF IsCreate
    THEN /\ Len(log) >= 2
         /\ log[2].res = "ok"
         /\ ~(TruthyStr(loc.data.error) \/ TruthyStr(loc.data.message))
         /\ params.waitForCompletion => log[Len(log)].res = "terminal"
    ELSE log[1].res = "ok"

\* the operations execute has a branch for
Supported(op) == op \in {"create", "get", "cancel", "list"}

\* how many of the first k items had such an operation
SupportedBefore(k) == Cardinality({j \in 1..k : Supported(ops[j])})

\* execute threw because the credentials could not be read, before any item
CredentialsFailed == pc = "threw" /\ thrown = CredentialsError /\ ops = <<>>

\* C4 as stated: in continue-on-failure mode execute never throws, every item
\* that ended has its record at its own position, and an item has an error
\* record, tagged with its index, exactly when it failed; in the default mode
\* returnData holds no error record, the first failing item makes execute throw
\* its error, and nothing of a later item exists.
C4_Stated ==
    /\ continueOnFail =>
          /\ pc # "threw"
          /\ Len(returnData) = i
          /\ (pc = "returned") => Len(returnData) = n
          /\ \A k \in 1..Len(returnData) :
                IsErrorRecord(returnData[k]) => returnData[k].pairedItem.item = k - 1
          /\ ItemEnded =>
                /\ Len(returnData) = log[1].item + 1
                /\ LastFailed <=> ~EndedWell
    /\ ~continueOnFail =>
          /\ Len(returnData) = i
          /\ \A k \in 1..Len(returnData) : ~IsErrorRecord(returnData[k])
          /\ (ItemEnded /\ ~EndedWell) => pc = "threw"
          /\ (pc = "threw") =>
                /\ ItemEnded /\ ~EndedWell
                /\ i < n
                /\ thrown # NoError
                /\ \A k \in 1..Len(log) : log[k].item = i
                /\ \A k \in 1..Len(sent) : sent[k].item <= i
    /\ (ItemEnded /\ log[Len(log)].res = "fail") =>
          LastMessage = <<"request failed: ", log[Len(log)].kind>>

\* C4: once the credentials are read, the records of returnData are those of
\* the items read so far whose operation is one of create, get, cancel and list,
\* in input order; an item with any other operation leaves no record and no
\* error.  In continue-on-failure mode such an item has an error record, tagged
\* with its own index, exactly when it failed, and execute throws only when the
\* credentials cannot be read; in the default mode returnData holds no error
\* record, the first failing item makes execute throw its error, and nothing of
\* a later item exists.
C4_OneRecordPerItem ==
    /\ Len(ops) \in {i, i + 1}
    /\ Len(returnData) = SupportedBefore(i)
    /\ (pc = "returned") => (i = n /\ Len(ops) = n)
    /\ \A k \in 1..Len(returnData) :
          IsErrorRecord(returnData[k]) =>
              \E j \in 1..i :
                  /\ Supported(ops[j])
                  /\ SupportedBefore(j) = k
                  /\ returnData[k].pairedItem.item = j - 1
    /\ (pc \in {"loop", "returned"} /\ i > 0 /\ ~Supported(ops[i])) =>
          (log = <<>> /\ Len(returnData) = SupportedBefore(i - 1))
    /\ continueOnFail =>
          /\ (pc = "threw") => CredentialsFailed
          /\ ItemEnded =>
                /\ Len(returnData) = SupportedBefore(log[1].item + 1)
                /\ Supported(ops[log[1].item + 1])
                /\ LastFailed <=> ~EndedWell
    /\ ~continueOnFail =>
          /\ \A k \in 1..Len(returnData) : ~IsErrorRecord(returnData[k])
          /\ (ItemEnded /\ ~EndedWell) => pc = "threw"
          /\ (pc = "threw" /\ ~CredentialsFailed) =>
                /\ ItemEnded /\ ~EndedWell
                /\ i < n
                /\ Len(ops) = i + 1
                /\ thrown # NoError
                /\ \A k \in 1..Len(log) : log[k].item = i
                /\ \A k \in 1..Len(sent) : sent[k].item <= i
    /\ (ItemEnded /\ log[Len(log)].res = "fail") =>
          LastMessage = <<"request failed: ", log[Len(log)].kind>>

\* an item without a branch, then a failing one whose error record is the first
C4_Witness ==
    /\ continueOnFail
    /\ pc = "returned"
    /\ n = 2
    /\ ~Supported(ops[1])
    /\ Supported(ops[2])
    /\ Len(returnData) = 1
    /\ IsErrorRecord(returnData[1])
    /\ returnData[1].pairedItem.item = 1

----------------------------------------------------------------------------
(* C5 *)

\* /incubate answered the item
Answered == IsCreate /\ Len(log) >= 2 /\ log[2].res = "ok"

\* C5: when the /incubate answer has a non-empty error or message, createJob has
\* failed with that message, message before error, and no getJob call was made,
\* with or without waitForCompletion; otherwise the submission counts as
\* accepted: the submission record is returned, or polling has begun.
C5_SubmissionFailure ==
    Answered =>
        IF TruthyStr(loc.data.error) \/ TruthyStr(loc.data.message)
        THEN /\ ItemEnded
             /\ LastFailed
             /\ LastMessage = <<IF TruthyStr(loc.data.message)
                                THEN loc.data.message ELSE loc.data.error>>
             /\ Len(log) = 2
             /\ Fetches = 0
        ELSE IF params.waitForCompletion
             THEN Fetches >= 1
             ELSE /\ ItemEnded
                  /\ ~LastFailed
                  /\ LastJson = [jobId |-> loc.data.vesselId,
                                 idempotencyKey |-> loc.data.idempotencyKey,
                                 status |-> loc.data.status,
                                 scheduledFor |-> loc.data.scheduledFor]

C5_Witness ==
    /\ ItemEnded
    /\ Answered
    /\ params.waitForCompletion
    /\ TruthyStr(loc.data.error)
    /\ TruthyStr(loc.data.message)
    /\ LastFailed

----------------------------------------------------------------------------
(* C6 *)

\* C6: an item issues at most one signing-secret request and one POST /incubate,
\* and a request that failed is the last entry of the item's log: the item has
\* ended with that request's error.
C6_NoRetry ==
    /\ Count(log, "hmac-key") <= 1
    /\ Count(log, "incubate") <= 1
    /\ \A a, b \in 1..Len(sent) : (a # b) => sent[a].item # sent[b].item
    /\ \A k \in 1..Len(log) :
          (log[k].res = "fail") =>
              /\ k = Len(log)
              /\ ItemEnded
              /\ LastFailed
              /\ LastMessage = <<"request failed: ", log[k].kind>>

C6_Witness ==
    /\ ItemEnded
    /\ IsCreate
    /\ Fetches = 2
    /\ log[Len(log)].kind = "get"
    /\ log[Len(log)].res = "fail"

----------------------------------------------------------------------------
(* C7 *)

\* the terminal job carries output.result.structured_output
HasStructured(job) ==
    /\ "output" \in DOMAIN job
    /\ "result" \in DOMAIN job["output"]
    /\ "structured_output" \in DOMAIN job["output"]["result"]

\* a terminal job has been flattened
Flattened ==
    /\ ItemEnded
    /\ Accepted
    /\ params.waitForCompletion
    /\ log[Len(log)].res = "terminal"

\* C7: for every terminal job flattened, the call returned a record, and the
\* record has structuredOutput exactly when the job has
\* output.result.structured_output, with the same value.
C7_StructuredOutput ==
    Flattened =>
        /\ ~LastFailed
        /\ ("structuredOutput" \in DOMAIN LastJson) <=> HasStructured(loc.job)
        /\ HasStructured(loc.job) =>
              LastJson["structuredOutput"] = loc.job["output"]["result"]["structured_output"]

C7_Witness ==
    /\ Flattened
    /\ HasStructured(loc.job)
    /\ loc.job["output"]["result"]["structured_output"] = "0"
    /\ LastJson["structuredOutput"] = "0"

----------------------------------------------------------------------------
(* C8 *)

\* the index of the item the log belongs to
LogItem == IF ItemEnded /\ pc # "threw" THEN i - 1 ELSE i

\* C8: every request of the log belongs to one item, the one in progress or
\* ended last; only the last request can be pending; while an item is in
\* progress every earlier item whose operation has a branch has its record;
\* each /incubate request carries the token and the key of its own item's
\* call, and the poll loop fetches the job its own submission created.
C8_Sequential ==
    /\ \A k \in 1..Len(log) :
          /\ log[k].item = LogItem
          /\ (log[k].res = "pending") => k = Len(log)
    /\ (pc \in {"hmac", "incubate", "getJob", "sleep", "opGet", "opCancel", "opList"}) <=>
          (log # <<>> /\ log[Len(log)].res = "pending")
    /\ (log # <<>> /\ ~ItemEnded) => Len(returnData) = SupportedBefore(log[1].item)
    /\ \A a, b \in 1..Len(sent) : (a < b) => sent[a].item < sent[b].item
    /\ \A k \in 1..Len(sent) :
          /\ sent[k].body.options.token.mint.item = sent[k].item
          /\ sent[k].keyMs = sent[k].at
    /\ (IsCreate /\ Len(log) >= 2) =>
          /\ log[2].body.options.token = loc.token
          /\ log[2].body.idempotencyKey = loc.idempotencyKey
          /\ loc.token.mint.item = LogItem
          /\ \A k \in 3..Len(log) :
                (log[k].kind = "get") =>
                    /\ log[k].body.jobId = loc.data.vesselId
                    /\ log[k].at >= loc.startTime
                    /\ loc.startTime >= log[2].at

C8_Witness ==
    /\ pc = "getJob"
    /\ i = 1
    /\ Len(returnData) = 1
    /\ Len(sent) = 2
    /\ Fetches = 2

----------------------------------------------------------------------------
(* C9 *)

\* the key of a submission was generated, not supplied
Generated(e) == e.keyBytes # <<>>

\* C9 as stated: two submissions without a supplied key carry different keys.
C9_Stated ==
    \A a, b \in 1..Len(sent) :
        (a < b /\ Generated(sent[a]) /\ Generated(sent[b])) =>
            sent[a].body.idempotencyKey # sent[b].body.idempotencyKey

\* C9, amended: two generated keys are equal only when both were generated in
\* the same millisecond from the same random bytes.
C9_KeysDiffer ==
    \A a, b \in 1..Len(sent) :
        (a < b /\ Generated(sent[a]) /\ Generated(sent[b])) =>
            (sent[a].body.idempotencyKey = sent[b].body.idempotencyKey
                <=> (sent[a].keyMs = sent[b].keyMs /\ sent[a].keyBytes = sent[b].keyBytes))

C9_Witness ==
    /\ Len(sent) = 2
    /\ Generated(sent[1])
    /\ Generated(sent[2])
    /\ sent[1].keyMs = sent[2].keyMs
    /\ sent[1].keyBytes # sent[2].keyBytes
    /\ sent[1].body.idempotencyKey # sent[2].body.idempotencyKey

----------------------------------------------------------------------------
(* C10 *)

\* C10: the token of every /incubate request was minted by the createJob call of
\* the same item, no later than the request; no two requests carry the same
\* minted token; and in the call that sends it the token was minted after the
\* signing secret of that call was fetched, from that secret.
C10_FreshToken ==
    /\ \A k \in 1..Len(sent) :
          LET token == sent[k].body.options.token IN
          /\ token.mint.item = sent[k].item
          /\ token.mint.at <= sent[k].at
          /\ \A j \in 1..Len(sent) :
                (j # k) => sent[j].body.options.token.mint.no # token.mint.no
    /\ (IsCreate /\ Len(log) >= 2) =>
          LET token == log[2].body.options.token IN
          /\ log[1].kind = "hmac-key"
          /\ log[1].res = "ok"
          /\ log[2].kind = "incubate"
          /\ token.mint.item = log[2].item
          /\ token.mint.no = mints
          /\ token.mint.at >= log[1].at + log[1].took
          /\ token.secret = <<"hmac-of-", params.projectId>>

C10_Witness ==
    /\ Len(sent) = 2
    /\ pc = "incubate"
    /\ sent[2].body.options.token.mint.item = 1
    /\ sent[1].body.options.token.mint.item = 0

----------------------------------------------------------------------------
(* C11 *)

\* the requests createJob may issue
CreateRequests == {"hmac-key", "incubate", "get"}

\* C11: every entry of a create item's log is the signing-secret fetch, POST
\* /incubate, a getJob fetch of the job the submission created, or a timer, on
\* every path and also when the call has ended with the timeout error; a cancel
\* request is in the log only of an item whose operation is cancel, as its one
\* request.
C11_CreateNeverCancels ==
    /\ IsCreate =>
          \A k \in 1..Len(log) :
              /\ log[k].kind \in CreateRequests \cup {"sleep"}
              /\ (k = 1) <=> (log[k].kind = "hmac-key")
              /\ (k = 2) <=> (log[k].kind = "incubate")
              /\ (log[k].kind = "get") => log[k].body = [jobId |-> loc.data.vesselId]
    /\ \A k \in 1..Len(log) :
          (log[k].kind = "cancel") =>
              /\ params.operation = "cancel"
              /\ Len(log) = 1
              /\ log[k].body = [jobId |-> params.jobId]

C11_Witness ==
    /\ ItemEnded
    /\ IsCreate
    /\ params.waitForCompletion
    /\ TimedOut
    /\ Fetches >= 2
    /\ log[Len(log)].kind = "sleep"
    /\ i = 1
    /\ ops[1] = "cancel"
    /\ Len(returnData) = 1
    /\ returnData[1].json = [success |-> TRUE, jobId |-> "run_x"]

----------------------------------------------------------------------------
(* C12 *)

\* the advancedOptions a submission was built from, and the budget in its token
SentBudget(k) == sent[k].body.options.token.budget

\* C12 as stated: the budget of every minted token has aiDollars equal to the
\* supplied AI budget whenever one is supplied and 10 otherwise, computeHours
\* equal to the supplied compute budget whenever one is supplied and 1 otherwise,
\* and window "day".
C12_Stated ==
    \A k \in 1..Len(sent) :
        LET supplied == sent[k].params.advancedOptions IN
        /\ SentBudget(k).aiDollars =
              IF "aiBudget" \in DOMAIN supplied THEN supplied["aiBudget"] ELSE 10
        /\ SentBudget(k).computeHours =
              IF "computeBudget" \in DOMAIN supplied THEN supplied["computeBudget"] ELSE 1
        /\ SentBudget(k).window = "day"

\* a token was minted for an item that supplied an AI budget of 0, with aiDollars 10
C12_Witness ==
    /\ Len(sent) = 1
    /\ "aiBudget" \in DOMAIN sent[1].params.advancedOptions
    /\ sent[1].params.advancedOptions["aiBudget"] = 0
    /\ SentBudget(1).aiDollars = 10

----------------------------------------------------------------------------
(* C13 *)

\* a tool-list string was supplied with submission k
ToolsSupplied(k) == "tools" \in DOMAIN sent[k].params.toolOptions

ToolsText(k) == sent[k].params.toolOptions["tools"]

\* the options of the request of submission k
SentOptions(k) == sent[k].body.options

\* JSON texts of arrays of strings, written out from the arrays: the tokens of
\* the array, with up to two blanks in each gap (one when it has two elements)
ToolNames == {<<>>, <<"a">>, <<" ">>, <<",">>, <<"[">>, <<"]">>}

NameArrays ==
    {<<>>} \cup {<<x>> : x \in ToolNames} \cup {<<x, y>> : x, y \in ToolNames}

Quoted(name) == <<"\"">> \o name \o <<"\"">>

ArrayTokens(names) ==
    <<<<"[">>>> \o
    [k \in 1..(2 * Len(names) - 1) |->
        IF k % 2 = 1 THEN Quoted(names[(k + 1) \div 2]) ELSE <<",">>] \o
    <<<<"]">>>>

Blanks(k) == [j \in 1..k |-> " "]

RECURSIVE Layout(_, _, _)
Layout(tokens, gaps, k) ==
    IF k > Len(tokens) THEN Blanks(gaps[k])
    ELSE Blanks(gaps[k]) \o tokens[k] \o Layout(tokens, gaps, k + 1)

LayoutsOf(names) ==
    LET tokens == ArrayTokens(names)
    IN  {Layout(tokens, gaps, 1) :
            gaps \in [1..(Len(tokens) + 1) -> 0..(IF Len(names) < 2 THEN 2 ELSE 1)]}

ArrayTexts == UNION {LayoutsOf(names) : names \in NameArrays}

\* the array of strings with the given elements
ArrayOf(names) == [arr |-> [k \in 1..Len(names) |-> [str |-> names[k]]]]

\* the segments of a text between its commas, by the positions of the commas
Commas(s) == {k \in 1..Len(s) : s[k] = ","}

CommaNo(s, j) == CHOOSE k \in Commas(s) : Cardinality({h \in Commas(s) : h <= k}) = j

Segment(s, j) ==
    SubSeq(s,
           IF j = 1 THEN 1 ELSE CommaNo(s, j - 1) + 1,
           IF j = Cardinality(Commas(s)) + 1 THEN Len(s) ELSE CommaNo(s, j) - 1)

\* r is s without the whitespace at its two ends
IsTrimOf(r, s) ==
    /\ \E a, b \in 0..Len(s) :
          /\ a + b <= Len(s)
          /\ r = SubSeq(s, a + 1, Len(s) - b)
          /\ \A j \in 1..a : s[j] = " "
          /\ \A j \in (Len(s) - b + 1)..Len(s) : s[j] = " "
    /\ (r # <<>>) => (r[1] # " " /\ r[Len(r)] # " ")

\* value is the array of the trimmed segments of text
IsSplitTrimOf(value, text) ==
    /\ DOMAIN value = {"arr"}
    /\ Len(value.arr) = Cardinality(Commas(text)) + 1
    /\ \A j \in 1..Len(value.arr) :
          /\ DOMAIN value.arr[j] = {"str"}
          /\ IsTrimOf(value.arr[j].str, Segment(text, j))

\* the tools value of submission k is the one stated for the text supplied
ToolsAsClaimed(k) ==
    /\ (ToolsText(k) \in ArrayTexts) =>
          /\ "tools" \in DOMAIN SentOptions(k)
          /\ \A names \in NameArrays :
                (ToolsText(k) \in LayoutsOf(names)) =>
                    SentOptions(k)["tools"] = ArrayOf(names)
    /\ (~JsonParse(ToolsText(k)).ok) =>
          /\ "tools" \in DOMAIN SentOptions(k)
          /\ IsSplitTrimOf(SentOptions(k)["tools"], ToolsText(k))

\* C13 as stated: for every tool-list string that is the JSON text of an array
\* of strings, the tools value of the request is that array; for every tool-list
\* string that is not valid JSON, it is the array of the comma-split,
\* whitespace-trimmed segments of the string.
C13_Stated ==
    \A k \in 1..Len(sent) : ToolsSupplied(k) => ToolsAsClaimed(k)

\* C13, amended: the same for every tool-list string that is not empty; for the
\* empty string the request has no tools field.
C13_ToolsValue ==
    \A k \in 1..Len(sent) :
        ToolsSupplied(k) =>
            IF ToolsText(k) # <<>>
            THEN ToolsAsClaimed(k)
            ELSE "tools" \notin DOMAIN SentOptions(k)

C13_Witness ==
    /\ Len(sent) = 1
    /\ ToolsSupplied(1)
    /\ ToolsText(1) = <<"[", "\"", "a", "\"", ",", "\"", "a", "\"", "]">>
    /\ SentOptions(1)["tools"] = [arr |-> <<[str |-> <<"a">>], [str |-> <<"a">>]>>]
    /\ pc = "returned"

----------------------------------------------------------------------------
(* C14 *)

\* an output format was supplied with the item in progress or ended last
FormatSupplied == IsCreate /\ "outputFormat" \in DOMAIN params.modelOptions

FormatInput == params.modelOptions["outputFormat"]

\* non-empty objects, and their JSON texts written out from them
MemberValues ==
    {Str(<<"a">>), Null, Obj(<<>>), Arr(<<>>), Arr(<<Str(<<"a">>)>>),
     Obj(<<"a">> :> Null)}

SchemaObjects == {Obj(<<"a">> :> v) : v \in MemberValues}

\* JSON.stringify of a string, null, an array or an object of at most one member
RECURSIVE Stringify(_)
Stringify(value) ==
    IF DOMAIN value = {"str"} THEN <<"\"">> \o value.str \o <<"\"">>
    ELSE IF DOMAIN value = {"null"} THEN <<"n", "u", "l", "l">>
    ELSE IF DOMAIN value = {"arr"}
         THEN IF value.arr = <<>> THEN <<"[", "]">>
              ELSE <<"[">> \o Stringify(value.arr[1]) \o <<"]">>
    ELSE IF DOMAIN value.obj = {} THEN <<"{", "}">>
         ELSE LET key == CHOOSE k \in DOMAIN value.obj : TRUE
              IN  <<"{", "\"">> \o key \o <<"\"", ":">> \o Stringify(value.obj[key]) \o <<"}">>

\* the request carries the schema object as its output format
SendsSchema(body, schema) ==
    /\ "outputFormat" \in DOMAIN body.options
    /\ body.options["outputFormat"] = [type |-> "json_schema", schema |-> schema]

\* C14: once the signing secret of a create item has arrived and its token is
\* minted, its /incubate request has been issued whatever output format was
\* supplied; when the output
\* format is a string that is not valid JSON, the request's options have no
\* outputFormat; when it is the JSON text of a non-empty object, or a non-empty
\* object, options.outputFormat is {type: "json_schema", schema: that object}.
C14_OutputFormat ==
    (FormatSupplied /\ log[1].res = "ok" /\ loc.token.mint.no # 0) =>
        /\ Len(log) >= 2
        /\ log[2].kind = "incubate"
        /\ (DOMAIN FormatInput = {"str"} /\ ~JsonParse(FormatInput.str).ok) =>
              "outputFormat" \notin DOMAIN log[2].body.options
        /\ \A schema \in SchemaObjects :
              (FormatInput = Str(Stringify(schema))) => SendsSchema(log[2].body, schema)
        /\ (DOMAIN FormatInput = {"obj"} /\ DOMAIN FormatInput.obj # {}) =>
              SendsSchema(log[2].body, FormatInput)

C14_Witness ==
    /\ FormatSupplied
    /\ pc = "returned"
    /\ FormatInput = Str(<<"{", "\"", "a", "\"", ":", "\"", "a", "\"", "}">>)
    /\ Len(log) = 2
    /\ log[2].res = "ok"
    /\ log[2].body.options["outputFormat"] =
          [type |-> "json_schema", schema |-> [obj |-> (<<"a">> :> [str |-> <<"a">>])]]

----------------------------------------------------------------------------
(* C15 *)

\* a createJob call is in progress; it has returned or thrown
InCreate == pc \in {"hmac", "createToken", "incubate", "getJob", "sleep"}

CallEnded == pc \in {"loop", "returned", "threw"}

\* no fetch is issued once the timeout has elapsed, and none when not waiting
FetchesBounded ==
    IsCreate =>
        /\ ~params.waitForCompletion => Fetches = 0
        /\ \A k \in 1..Len(log) :
              (log[k].kind = "get") =>
                  /\ log[k].at >= loc.startTime
                  /\ log[k].at - loc.startTime < ConfiguredTimeout * MsPerSecond

\* an accepted submission that does not wait has returned the submission record
ReturnsSubmission ==
    (IsCreate /\ ~params.waitForCompletion /\ Len(log) >= 2 /\ log[2].res = "ok"
        /\ ~(TruthyStr(loc.data.error) \/ TruthyStr(loc.data.message))) =>
        /\ CallEnded
        /\ ~LastFailed
        /\ DOMAIN LastJson = {"jobId", "idempotencyKey", "status", "scheduledFor"}
        /\ LastJson["jobId"] = loc.data.vesselId
        /\ LastJson["idempotencyKey"] = loc.data.idempotencyKey
        /\ LastJson["status"] = loc.data.status
        /\ LastJson["scheduledFor"] = loc.data.scheduledFor
        /\ Len(log) = 2

\* C15: when every request issued is answered or fails, createToken resolves or
\* rejects and every timer fires, every createJob call returns or throws, for
\* every polling interval and timeout, the default ones included; no getJob
\* fetch is issued once the timeout has elapsed since polling began; and
\* with waitForCompletion false no fetch is issued at all and an accepted
\* submission returns {jobId, idempotencyKey, status, scheduledFor}.
C15_BoundedWait ==
    /\ [](FetchesBounded /\ ReturnsSubmission)
    /\ (InCreate ~> CallEnded)

C15_Witness ==
    /\ pc = "threw"
    /\ IsCreate
    /\ params.waitForCompletion
    /\ src.never
    /\ params.pollingOptions.timeout = 0
    /\ params.pollingOptions.pollingInterval = 0
    /\ Fetches = (DefaultTimeout \div DefaultPollingInterval)
    /\ TimedOut
    /\ Elapsed = DefaultTimeout * MsPerSecond

====
